---- MODULE Spec2Model ----
(***************************************************************************)
(* TicTacToe Memory Challenge: the game engine of src/tictactoe_game.py    *)
(* (class TicTacToeGame) as a state machine.  The engine object is the     *)
(* record `game`; every method is an operator from the object (and its     *)
(* arguments) to the object after the call and the value returned.         *)
(***************************************************************************)
EXTENDS Integers, Sequences, FiniteSets, TLC

VARIABLES game,    \* the TicTacToeGame instance (all of its fields)
          op,      \* the last call made on it: [name, arg]
          result   \* what that call returned: [success, message]

vars == <<game, op, result>>

(***************************************************************************)
(* Bounds of the model.                                                    *)
(***************************************************************************)
\* completed rounds after which no further move is explored (full inputs)
MaxGames == 1
\* marks of each kind written by set_board_for_testing before a round (PresetSpec)
MaxPreset == 4
\* completed rounds after which no further move is explored (StreakSpec)
MaxStreak == 4
\* completed rounds after which no further move is explored (ProgSpec)
MaxRounds == 3

(***************************************************************************)
(* Enumerations and constant tables.                                       *)
(***************************************************************************)
EMPTY == ""
X == "X"
O == "O"

IDLE == "idle"
PLAYER_TURN == "player_turn"
INVISIBLE == "invisible"
COMPUTER_TURN == "computer_turn"
PLAYER_WINS == "player_wins"
COMPUTER_WINS == "computer_wins"
DRAW == "draw"

EASY == "easy"
MEDIUM == "medium"
HARD == "hard"

Difficulty == {EASY, MEDIUM, HARD}

COUNTDOWN_TIMES == [d \in Difficulty |->
                      IF d = EASY THEN 10 ELSE IF d = MEDIUM THEN 5 ELSE 1]

TOKEN_REWARDS == [win_easy |-> 5, win_medium |-> 10, win_hard |-> 20,
                  streak_bonus |-> 5, draw |-> 2]

AVATARS == << [id |-> "egg",     name |-> "Egg",      cost |-> 0],
              [id |-> "chick",   name |-> "Chick",    cost |-> 25],
              [id |-> "chicken", name |-> "Chicken",  cost |-> 50],
              [id |-> "rooster", name |-> "Rooster",  cost |-> 100],
              [id |-> "eagle",   name |-> "Eagle",    cost |-> 200],
              [id |-> "dragon",  name |-> "Dragon",   cost |-> 350],
              [id |-> "unicorn", name |-> "Unicorn",  cost |-> 500],
              [id |-> "alien",   name |-> "Alien",    cost |-> 750],
              [id |-> "robot",   name |-> "Robot",    cost |-> 1000],
              [id |-> "crown",   name |-> "Champion", cost |-> 1500] >>

WIN_PATTERNS == << <<0, 1, 2>>, <<3, 4, 5>>, <<6, 7, 8>>,
                   <<0, 3, 6>>, <<1, 4, 7>>, <<2, 5, 8>>,
                   <<0, 4, 8>>, <<2, 4, 6>> >>

\* Optional[...] values: None is the empty sequence, a value v is <<v>>
None == << >>
Some(v) == <<v>>

Cells == 0 .. 8

\* x in seq, as Python's `in` on a list
InList(x, seq) == \E i \in 1 .. Len(seq) : seq[i] = x

(***************************************************************************)
(* Board & rules.                                                          *)
(***************************************************************************)
\* variant: the cell is not required to be empty
is_position_valid_in_range(g, position) ==
    /\ 0 <= position
    /\ position < 9

is_position_valid(g, position) ==
    /\ 0 <= position
    /\ position < 9
    /\ g.board[position] = EMPTY

\* [i for i in range(9) if board[i] == EMPTY], ascending
RECURSIVE EmptyFrom(_, _)
EmptyFrom(b, i) ==
    IF i >= 9 THEN << >>
    ELSE IF b[i] = EMPTY THEN <<i>> \o EmptyFrom(b, i + 1)
    ELSE EmptyFrom(b, i + 1)

get_empty_positions(b) == EmptyFrom(b, 0)

PatternHeld(b, mark, pattern) ==
    \A j \in 1 .. Len(pattern) : b[pattern[j]] = mark

\* variant: only the rows and the columns are looked at
check_win_rows_columns(b, mark) ==
    \E k \in 1 .. 6 : PatternHeld(b, mark, WIN_PATTERNS[k])

\* variant: a pattern counts once its cells are taken, by whichever mark
check_win_any_mark(b, mark) ==
    \E k \in 1 .. Len(WIN_PATTERNS) :
        \A j \in 1 .. 3 : b[WIN_PATTERNS[k][j]] # EMPTY

check_win(b, mark) ==
    \E k \in 1 .. Len(WIN_PATTERNS) : PatternHeld(b, mark, WIN_PATTERNS[k])

\* the first pattern, in the order of WIN_PATTERNS, that mark holds; [] if none
RECURSIVE WinningFrom(_, _, _)
WinningFrom(b, mark, k) ==
    IF k > Len(WIN_PATTERNS) THEN << >>
    ELSE IF PatternHeld(b, mark, WIN_PATTERNS[k]) THEN WIN_PATTERNS[k]
    ELSE WinningFrom(b, mark, k + 1)

\* variant: the last pattern that mark holds, not the first
RECURSIVE WinningBack(_, _, _)
WinningBack(b, mark, k) ==
    IF k < 1 THEN << >>
    ELSE IF PatternHeld(b, mark, WIN_PATTERNS[k]) THEN WIN_PATTERNS[k]
    ELSE WinningBack(b, mark, k - 1)

get_winning_cells_last(b, mark) == WinningBack(b, mark, Len(WIN_PATTERNS))

get_winning_cells(b, mark) == WinningFrom(b, mark, 1)

\* variant: the board counts as full with one cell still empty
is_board_full_one_left(b) == Cardinality({c \in Cells : b[c] = EMPTY}) <= 1

is_board_full(b) == \A c \in Cells : b[c] # EMPTY

(***************************************************************************)
(* Construction and the engine's methods.                                  *)
(***************************************************************************)
\* the dataclass field defaults, before __post_init__
Defaults ==
    [board |-> << >>, state |-> IDLE, difficulty |-> EASY,
     countdown_seconds |-> 10, board_visible |-> TRUE, winner |-> None,
     winning_cells |-> << >>, last_move |-> None,
     win_streak |-> 0, best_streak |-> 0, games_played |-> 0,
     games_won |-> 0, loss_streak |-> 0, current_countdown |-> 10,
     tokens |-> 0, total_tokens_earned |-> 0,
     current_avatar |-> "egg", unlocked_avatars |-> <<"egg">>]

\* variant: the last move of the round before is not cleared
reset_keeps_last_move(g) ==
    [g EXCEPT !.board = [c \in Cells |-> EMPTY],
              !.state = PLAYER_TURN,
              !.board_visible = TRUE,
              !.winner = None,
              !.winning_cells = << >>]

\* variant: the winner of the last round is not cleared
reset_keeps_winner(g) ==
    [g EXCEPT !.board = [c \in Cells |-> EMPTY],
              !.state = PLAYER_TURN,
              !.board_visible = TRUE,
              !.winning_cells = << >>,
              !.last_move = None]

\* variant: a new round also starts the win streak afresh
reset_clears_streak(g) ==
    [g EXCEPT !.board = [c \in Cells |-> EMPTY],
              !.state = PLAYER_TURN,
              !.board_visible = TRUE,
              !.winner = None,
              !.winning_cells = << >>,
              !.last_move = None,
              !.win_streak = 0]

reset(g) ==
    [g EXCEPT !.board = [c \in Cells |-> EMPTY],
              !.state = PLAYER_TURN,
              !.board_visible = TRUE,
              !.winner = None,
              !.winning_cells = << >>,
              !.last_move = None]

\* TicTacToeGame(): __post_init__ resets when the board is empty
NewEngine == IF Defaults.board = << >> THEN reset(Defaults) ELSE Defaults

\* variant: the adapted countdown survives a change of difficulty
set_difficulty_keeps_countdown(g, d) ==
    [g EXCEPT !.difficulty = d,
              !.countdown_seconds = COUNTDOWN_TIMES[d]]

\* variant: changing the difficulty also clears the streaks
set_difficulty_clears_streaks(g, d) ==
    [g EXCEPT !.difficulty = d,
              !.current_countdown = COUNTDOWN_TIMES[d],
              !.countdown_seconds = COUNTDOWN_TIMES[d],
              !.win_streak = 0,
              !.loss_streak = 0]

set_difficulty(g, d) ==
    [g EXCEPT !.difficulty = d,
              !.current_countdown = COUNTDOWN_TIMES[d],
              !.countdown_seconds = COUNTDOWN_TIMES[d]]

get_countdown_seconds(g) == g.current_countdown

\* variant: showing the board again gives the PlayerTurn phase back
set_board_visible_restores_turn(g, visible) ==
    LET g1 == [g EXCEPT !.board_visible = visible]
    IN  IF ~visible /\ g1.state = PLAYER_TURN
        THEN [g1 EXCEPT !.state = INVISIBLE]
        ELSE IF visible /\ g1.state = INVISIBLE
        THEN [g1 EXCEPT !.state = PLAYER_TURN]
        ELSE g1

\* variant: hiding the board enters Invisible from any phase
set_board_visible_any_phase(g, visible) ==
    LET g1 == [g EXCEPT !.board_visible = visible]
    IN  IF ~visible THEN [g1 EXCEPT !.state = INVISIBLE] ELSE g1

set_board_visible(g, visible) ==
    LET g1 == [g EXCEPT !.board_visible = visible]
    IN  IF ~visible /\ g1.state = PLAYER_TURN
        THEN [g1 EXCEPT !.state = INVISIBLE]
        ELSE g1

\* variant: a win leaves the loss streak standing
record_win_keeps_loss_streak(g) ==
    LET g2 == [g EXCEPT !.games_won = @ + 1,
                        !.win_streak = @ + 1]
        g3 == IF g2.win_streak > g2.best_streak
              THEN [g2 EXCEPT !.best_streak = g2.win_streak] ELSE g2
        g4 == IF g3.current_countdown > 1
              THEN [g3 EXCEPT !.current_countdown = @ - 1] ELSE g3
        base == IF g4.difficulty = EASY THEN TOKEN_REWARDS.win_easy
                ELSE IF g4.difficulty = MEDIUM THEN TOKEN_REWARDS.win_medium
                ELSE TOKEN_REWARDS.win_hard
        tokens_earned ==
            IF g4.win_streak > 1
            THEN base + TOKEN_REWARDS.streak_bonus * (g4.win_streak - 1)
            ELSE base
    IN  [game |-> g4, tokens_earned |-> tokens_earned]

\* variant: the streak bonus counts the win just made as well
record_win_full_bonus(g) ==
    LET g2 == [g EXCEPT !.games_won = @ + 1,
                        !.win_streak = @ + 1,
                        !.loss_streak = 0]
        g3 == IF g2.win_streak > g2.best_streak
              THEN [g2 EXCEPT !.best_streak = g2.win_streak] ELSE g2
        g4 == IF g3.current_countdown > 1
              THEN [g3 EXCEPT !.current_countdown = @ - 1] ELSE g3
        base == IF g4.difficulty = EASY THEN TOKEN_REWARDS.win_easy
                ELSE IF g4.difficulty = MEDIUM THEN TOKEN_REWARDS.win_medium
                ELSE TOKEN_REWARDS.win_hard
        tokens_earned ==
            IF g4.win_streak > 1
            THEN base + TOKEN_REWARDS.streak_bonus * g4.win_streak
            ELSE base
    IN  [game |-> g4, tokens_earned |-> tokens_earned]

\* variant: the countdown is reduced on every win, with no floor
record_win_no_floor(g) ==
    LET g2 == [g EXCEPT !.games_won = @ + 1,
                        !.win_streak = @ + 1,
                        !.loss_streak = 0]
        g3 == IF g2.win_streak > g2.best_streak
              THEN [g2 EXCEPT !.best_streak = g2.win_streak] ELSE g2
        g4 == [g3 EXCEPT !.current_countdown = @ - 1]
        base == IF g4.difficulty = EASY THEN TOKEN_REWARDS.win_easy
                ELSE IF g4.difficulty = MEDIUM THEN TOKEN_REWARDS.win_medium
                ELSE TOKEN_REWARDS.win_hard
        tokens_earned ==
            IF g4.win_streak > 1
            THEN base + TOKEN_REWARDS.streak_bonus * (g4.win_streak - 1)
            ELSE base
    IN  [game |-> g4, tokens_earned |-> tokens_earned]

\* the `if won:` branch: the engine after it and the tokens earned
record_win(g) ==
    LET g2 == [g EXCEPT !.games_won = @ + 1,
                        !.win_streak = @ + 1,
                        !.loss_streak = 0]
        g3 == IF g2.win_streak > g2.best_streak
              THEN [g2 EXCEPT !.best_streak = g2.win_streak] ELSE g2
        g4 == IF g3.current_countdown > 1
              THEN [g3 EXCEPT !.current_countdown = @ - 1] ELSE g3
        base == IF g4.difficulty = EASY THEN TOKEN_REWARDS.win_easy
                ELSE IF g4.difficulty = MEDIUM THEN TOKEN_REWARDS.win_medium
                ELSE TOKEN_REWARDS.win_hard
        tokens_earned ==
            IF g4.win_streak > 1
            THEN base + TOKEN_REWARDS.streak_bonus * (g4.win_streak - 1)
            ELSE base
    IN  [game |-> g4, tokens_earned |-> tokens_earned]

\* variant: a draw breaks the win streak
record_draw_breaks_streak(g) ==
    [game |-> [g EXCEPT !.win_streak = 0], tokens_earned |-> TOKEN_REWARDS.draw]

\* the `elif draw:` branch
record_draw(g) == [game |-> g, tokens_earned |-> TOKEN_REWARDS.draw]

\* variant: a loss clears the best streak as well
record_loss_clears_best(g) ==
    LET g2 == [g EXCEPT !.win_streak = 0, !.best_streak = 0, !.loss_streak = @ + 1]
        g3 == IF g2.loss_streak >= 3 /\ g2.current_countdown < 10
              THEN [g2 EXCEPT !.current_countdown = @ + 1, !.loss_streak = 0]
              ELSE g2
    IN  [game |-> g3, tokens_earned |-> 0]

\* variant: the countdown is raised only when the streak is exactly 3
record_loss_exactly_three(g) ==
    LET g2 == [g EXCEPT !.win_streak = 0, !.loss_streak = @ + 1]
        g3 == IF g2.loss_streak = 3 /\ g2.current_countdown < 10
              THEN [g2 EXCEPT !.current_countdown = @ + 1, !.loss_streak = 0]
              ELSE g2
    IN  [game |-> g3, tokens_earned |-> 0]

\* the `else:` branch (a loss)
record_loss(g) ==
    LET g2 == [g EXCEPT !.win_streak = 0, !.loss_streak = @ + 1]
        g3 == IF g2.loss_streak >= 3 /\ g2.current_countdown < 10
              THEN [g2 EXCEPT !.current_countdown = @ + 1, !.loss_streak = 0]
              ELSE g2
    IN  [game |-> g3, tokens_earned |-> 0]

record_game_result(g, won, draw) ==
    LET g1 == [g EXCEPT !.games_played = @ + 1]
        r == IF won THEN record_win(g1)
             ELSE IF draw THEN record_draw(g1)
             ELSE record_loss(g1)
    IN  [r.game EXCEPT !.tokens = @ + r.tokens_earned,
                       !.total_tokens_earned = @ + r.tokens_earned]

MoveResult(success, position, mark, cells, message) ==
    [success |-> success, position |-> position, mark |-> mark,
     winning_cells |-> cells, message |-> message]

\* variant: an accepted move does not reveal the board
player_move_keeps_hidden(g, position) ==
    IF g.state \notin {PLAYER_TURN, INVISIBLE, IDLE}
    THEN [game |-> g,
          result |-> MoveResult(FALSE, position, X, None, "Not your turn")]
    ELSE
    LET g0 == IF g.state = IDLE THEN reset(g) ELSE g
    IN  IF ~is_position_valid(g0, position)
        THEN [game |-> g0,
              result |-> MoveResult(FALSE, position, X, None, "Invalid position")]
        ELSE
        LET g1 == [g0 EXCEPT !.board[position] = X,
                             !.last_move = Some(position)]
        IN  IF check_win(g1.board, X) THEN
                LET g2 == [g1 EXCEPT !.state = PLAYER_WINS,
                                     !.winner = Some(X),
                                     !.winning_cells = get_winning_cells(g1.board, X)]
                    g3 == record_game_result(g2, TRUE, FALSE)
                IN  [game |-> g3,
                     result |-> MoveResult(TRUE, position, X,
                                           Some(g3.winning_cells), "You win!")]
            ELSE IF is_board_full(g1.board) THEN
                LET g2 == [g1 EXCEPT !.state = DRAW]
                IN  [game |-> record_game_result(g2, FALSE, TRUE),
                     result |-> MoveResult(TRUE, position, X, None, "It's a draw!")]
            ELSE
                [game |-> [g1 EXCEPT !.state = COMPUTER_TURN],
                 result |-> MoveResult(TRUE, position, X, None, "Computer's turn")]

player_move(g, position) ==
    IF g.state \notin {PLAYER_TURN, INVISIBLE, IDLE}
    THEN [game |-> g,
          result |-> MoveResult(FALSE, position, X, None, "Not your turn")]
    ELSE
    LET g0 == IF g.state = IDLE THEN reset(g) ELSE g
    IN  IF ~is_position_valid(g0, position)
        THEN [game |-> g0,
              result |-> MoveResult(FALSE, position, X, None, "Invalid position")]
        ELSE
        LET g1 == [g0 EXCEPT !.board[position] = X,
                             !.last_move = Some(position),
                             !.board_visible = TRUE]
        IN  IF check_win(g1.board, X) THEN
                LET g2 == [g1 EXCEPT !.state = PLAYER_WINS,
                                     !.winner = Some(X),
                                     !.winning_cells = get_winning_cells(g1.board, X)]
                    g3 == record_game_result(g2, TRUE, FALSE)
                IN  [game |-> g3,
                     result |-> MoveResult(TRUE, position, X,
                                           Some(g3.winning_cells), "You win!")]
            ELSE IF is_board_full(g1.board) THEN
                LET g2 == [g1 EXCEPT !.state = DRAW]
                IN  [game |-> record_game_result(g2, FALSE, TRUE),
                     result |-> MoveResult(TRUE, position, X, None, "It's a draw!")]
            ELSE
                [game |-> [g1 EXCEPT !.state = COMPUTER_TURN],
                 result |-> MoveResult(TRUE, position, X, None, "Computer's turn")]

(***************************************************************************)
(* Opponent heuristic.  The trial marks are written to the board and       *)
(* reverted, so the scan carries the board along.                          *)
(***************************************************************************)
\* variant: a trial mark that does not win is left on the board
RECURSIVE TrialScanNoRevert(_, _, _, _)
TrialScanNoRevert(b, empty, i, mark) ==
    IF i > Len(empty) THEN [found |-> FALSE, pos |-> -1, board |-> b]
    ELSE
    LET pos == empty[i]
        trial == [b EXCEPT ![pos] = mark]
    IN  IF check_win(trial, mark)
        THEN [found |-> TRUE, pos |-> pos, board |-> [trial EXCEPT ![pos] = EMPTY]]
        ELSE TrialScanNoRevert(trial, empty, i + 1, mark)

\* one `for pos in empty:` loop of _calculate_best_move, from index i on
RECURSIVE TrialScan(_, _, _, _)
TrialScan(b, empty, i, mark) ==
    IF i > Len(empty) THEN [found |-> FALSE, pos |-> -1, board |-> b]
    ELSE
    LET pos == empty[i]
        trial == [b EXCEPT ![pos] = mark]
        reverted == [trial EXCEPT ![pos] = EMPTY]
    IN  IF check_win(trial, mark)
        THEN [found |-> TRUE, pos |-> pos, board |-> reverted]
        ELSE TrialScan(reverted, empty, i + 1, mark)

\* the first element of order that is in empty; found = FALSE if there is none
RECURSIVE FirstIn(_, _, _)
FirstIn(order, empty, i) ==
    IF i > Len(order) THEN [found |-> FALSE, pos |-> -1]
    ELSE IF InList(order[i], empty) THEN [found |-> TRUE, pos |-> order[i]]
    ELSE FirstIn(order, empty, i + 1)

\* variant: the scan for a player win to block is left out
calculate_best_move_no_block(b) ==
    LET empty == get_empty_positions(b)
        win == TrialScan(b, empty, 1, O)
        corner == FirstIn(<<0, 2, 6, 8>>, empty, 1)
        edge == FirstIn(<<1, 3, 5, 7>>, empty, 1)
    IN  IF win.found THEN [pos |-> win.pos, board |-> win.board]
        ELSE IF InList(4, empty) THEN [pos |-> 4, board |-> win.board]
        ELSE IF corner.found THEN [pos |-> corner.pos, board |-> win.board]
        ELSE IF edge.found THEN [pos |-> edge.pos, board |-> win.board]
        ELSE [pos |-> empty[1], board |-> win.board]

calculate_best_move(b) ==
    LET empty == get_empty_positions(b)
        win == TrialScan(b, empty, 1, O)
        block == TrialScan(win.board, empty, 1, X)
        corner == FirstIn(<<0, 2, 6, 8>>, empty, 1)
        edge == FirstIn(<<1, 3, 5, 7>>, empty, 1)
    IN  IF win.found THEN [pos |-> win.pos, board |-> win.board]
        ELSE IF block.found THEN [pos |-> block.pos, board |-> block.board]
        ELSE IF InList(4, empty) THEN [pos |-> 4, board |-> block.board]
        ELSE IF corner.found THEN [pos |-> corner.pos, board |-> block.board]
        ELSE IF edge.found THEN [pos |-> edge.pos, board |-> block.board]
        ELSE [pos |-> empty[1], board |-> block.board]

computer_move(g) ==
    IF g.state # COMPUTER_TURN
    THEN [game |-> g,
          result |-> MoveResult(FALSE, -1, O, None, "Not computer's turn")]
    ELSE
    LET best == calculate_best_move(g.board)
        position == best.pos
        g1 == [g EXCEPT !.board = [best.board EXCEPT ![position] = O],
                        !.last_move = Some(position)]
    IN  IF check_win(g1.board, O) THEN
            LET g2 == [g1 EXCEPT !.state = COMPUTER_WINS,
                                 !.winner = Some(O),
                                 !.winning_cells = get_winning_cells(g1.board, O)]
                g3 == record_game_result(g2, FALSE, FALSE)
            IN  [game |-> g3,
                 result |-> MoveResult(TRUE, position, O,
                                       Some(g3.winning_cells), "Computer wins!")]
        ELSE IF is_board_full(g1.board) THEN
            LET g2 == [g1 EXCEPT !.state = DRAW]
            IN  [game |-> record_game_result(g2, FALSE, TRUE),
                 result |-> MoveResult(TRUE, position, O, None, "It's a draw!")]
        ELSE
            [game |-> [g1 EXCEPT !.state = PLAYER_TURN],
             result |-> MoveResult(TRUE, position, O, None, "Your turn!")]

(***************************************************************************)
(* Avatar shop.                                                            *)
(***************************************************************************)
\* the `for a in AVATARS` search: index of the first record with that id, 0 if none
RECURSIVE FindAvatar(_, _)
FindAvatar(avatar_id, i) ==
    IF i > Len(AVATARS) THEN 0
    ELSE IF AVATARS[i].id = avatar_id THEN i
    ELSE FindAvatar(avatar_id, i + 1)

\* variant: an avatar already unlocked can be bought again
purchase_avatar_again(g, avatar_id) ==
    LET i == FindAvatar(avatar_id, 1)
    IN  IF i = 0
        THEN [game |-> g,
              result |-> [success |-> FALSE, message |-> "Avatar not found"]]
        ELSE IF g.tokens < AVATARS[i].cost
        THEN [game |-> g,
              result |-> [success |-> FALSE, message |-> "Not enough tokens!",
                          need |-> AVATARS[i].cost, have |-> g.tokens]]
        ELSE [game |-> [g EXCEPT !.tokens = @ - AVATARS[i].cost,
                                 !.unlocked_avatars = Append(@, avatar_id),
                                 !.current_avatar = avatar_id],
              result |-> [success |-> TRUE, message |-> "Unlocked",
                          avatar |-> AVATARS[i]]]

\* variant: the avatar is handed over without taking its cost
purchase_avatar_free(g, avatar_id) ==
    LET i == FindAvatar(avatar_id, 1)
    IN  IF i = 0
        THEN [game |-> g,
              result |-> [success |-> FALSE, message |-> "Avatar not found"]]
        ELSE IF InList(avatar_id, g.unlocked_avatars)
        THEN [game |-> g,
              result |-> [success |-> FALSE, message |-> "Avatar already unlocked"]]
        ELSE IF g.tokens < AVATARS[i].cost
        THEN [game |-> g,
              result |-> [success |-> FALSE, message |-> "Not enough tokens!",
                          need |-> AVATARS[i].cost, have |-> g.tokens]]
        ELSE [game |-> [g EXCEPT !.unlocked_avatars = Append(@, avatar_id),
                                 !.current_avatar = avatar_id],
              result |-> [success |-> TRUE, message |-> "Unlocked",
                          avatar |-> AVATARS[i]]]

\* variant: the price is looked at before the unlocked list
purchase_avatar_price_first(g, avatar_id) ==
    LET i == FindAvatar(avatar_id, 1)
    IN  IF i = 0
        THEN [game |-> g,
              result |-> [success |-> FALSE, message |-> "Avatar not found"]]
        ELSE IF g.tokens < AVATARS[i].cost
        THEN [game |-> g,
              result |-> [success |-> FALSE, message |-> "Not enough tokens!",
                          need |-> AVATARS[i].cost, have |-> g.tokens]]
        ELSE IF InList(avatar_id, g.unlocked_avatars)
        THEN [game |-> g,
              result |-> [success |-> FALSE, message |-> "Avatar already unlocked"]]
        ELSE [game |-> [g EXCEPT !.tokens = @ - AVATARS[i].cost,
                                 !.unlocked_avatars = Append(@, avatar_id),
                                 !.current_avatar = avatar_id],
              result |-> [success |-> TRUE, message |-> "Unlocked",
                          avatar |-> AVATARS[i]]]

purchase_avatar(g, avatar_id) ==
    LET i == FindAvatar(avatar_id, 1)
    IN  IF i = 0
        THEN [game |-> g,
              result |-> [success |-> FALSE, message |-> "Avatar not found"]]
        ELSE IF InList(avatar_id, g.unlocked_avatars)
        THEN [game |-> g,
              result |-> [success |-> FALSE, message |-> "Avatar already unlocked"]]
        ELSE IF g.tokens < AVATARS[i].cost
        THEN [game |-> g,
              result |-> [success |-> FALSE, message |-> "Not enough tokens!",
                          need |-> AVATARS[i].cost, have |-> g.tokens]]
        ELSE [game |-> [g EXCEPT !.tokens = @ - AVATARS[i].cost,
                                 !.unlocked_avatars = Append(@, avatar_id),
                                 !.current_avatar = avatar_id],
              result |-> [success |-> TRUE, message |-> "Unlocked",
                          avatar |-> AVATARS[i]]]

set_avatar(g, avatar_id) ==
    IF ~InList(avatar_id, g.unlocked_avatars)
    THEN [game |-> g,
          result |-> [success |-> FALSE, message |-> "Avatar not unlocked"]]
    ELSE [game |-> [g EXCEPT !.current_avatar = avatar_id],
          result |-> [success |-> TRUE, message |-> "Avatar changed!"]]

(***************************************************************************)
(* The test hook: it writes mark to the listed cells and nothing else.     *)
(***************************************************************************)
\* the `for pos in positions` loop, from index i on
RECURSIVE SetFrom(_, _, _, _)
SetFrom(b, positions, i, mark) ==
    IF i > Len(positions) THEN b
    ELSE IF 0 <= positions[i] /\ positions[i] < 9
    THEN SetFrom([b EXCEPT ![positions[i]] = mark], positions, i + 1, mark)
    ELSE SetFrom(b, positions, i + 1, mark)

set_board_for_testing(g, positions, mark) ==
    [g EXCEPT !.board = SetFrom(g.board, positions, 1, mark)]

(***************************************************************************)
(* The state machine: one action per call on the engine.  `op` names the   *)
(* last call and `result` is what the caller sees of its return value: the *)
(* success flag and the message (None for a method that returns nothing).  *)
(***************************************************************************)
\* inputs of the calls
Positions == -1 .. 9
ShopIds == {"egg", "chick", "chicken", "rooster", "ghost"}
\* positions played in ProgSpec: enough for a win, a loss and a draw
ProgPositions == {1, 4, 5, 6, 7, 8}

Seen(r) == [success |-> r.success, message |-> r.message]

Init ==
    /\ game = NewEngine
    /\ op = "init"
    /\ result = None

Reset ==
    /\ game' = reset(game)
    /\ op' = "reset"
    /\ result' = None

SetDifficulty(d) ==
    /\ game' = set_difficulty(game, d)
    /\ op' = "set_difficulty"
    /\ result' = None

SetBoardVisible(visible) ==
    /\ game' = set_board_visible(game, visible)
    /\ op' = "set_board_visible"
    /\ result' = None

PlayerMove(position) ==
    LET r == player_move(game, position)
    IN  /\ game' = r.game
        /\ op' = "player_move"
        /\ result' = Seen(r.result)

ComputerMove ==
    LET r == computer_move(game)
    IN  /\ game' = r.game
        /\ op' = "computer_move"
        /\ result' = Seen(r.result)

PurchaseAvatar(avatar_id) ==
    LET r == purchase_avatar(game, avatar_id)
    IN  /\ game' = r.game
        /\ op' = "purchase_avatar"
        /\ result' = Seen(r.result)

SetAvatar(avatar_id) ==
    LET r == set_avatar(game, avatar_id)
    IN  /\ game' = r.game
        /\ op' = "set_avatar"
        /\ result' = Seen(r.result)

\* an accepted player move is explored only while fewer than n rounds are over
MoveWithin(n, position) ==
    \/ game.games_played < n
    \/ ~player_move(game, position).result.success

Next ==
    \/ Reset
    \/ \E d \in Difficulty : SetDifficulty(d)
    \/ \E v \in BOOLEAN : SetBoardVisible(v)
    \/ \E p \in Positions : MoveWithin(MaxGames, p) /\ PlayerMove(p)
    \/ ComputerMove
    \/ \E a \in ShopIds : PurchaseAvatar(a)
    \/ \E a \in ShopIds : SetAvatar(a)

Spec == Init /\ [][Next]_vars

(***************************************************************************)
(* The same engine and the same calls over more rounds, the player keeping *)
(* to ProgPositions; only the engine is observed (op and result stay).     *)
(***************************************************************************)
Quiet(g) == game' = g /\ UNCHANGED <<op, result>>

NextProg ==
    \/ Quiet(reset(game))
    \/ \E d \in Difficulty : Quiet(set_difficulty(game, d))
    \/ \E v \in BOOLEAN : Quiet(set_board_visible(game, v))
    \/ \E p \in ProgPositions :
          MoveWithin(MaxRounds, p) /\ Quiet(player_move(game, p).game)
    \/ Quiet(computer_move(game).game)
    \/ \E a \in ShopIds : Quiet(purchase_avatar(game, a).game)
    \/ \E a \in ShopIds : Quiet(set_avatar(game, a).game)

ProgSpec == Init /\ [][NextProg]_vars

(***************************************************************************)
(* The rounds alone, one more of them: moves, reset and set_difficulty.    *)
(***************************************************************************)
NextStreak ==
    \/ Quiet(reset(game))
    \/ \E d \in Difficulty : Quiet(set_difficulty(game, d))
    \/ \E p \in ProgPositions :
          MoveWithin(MaxStreak, p) /\ Quiet(player_move(game, p).game)
    \/ Quiet(computer_move(game).game)

StreakSpec == Init /\ [][NextStreak]_vars

(***************************************************************************)
(* One round played from a position that set_board_for_testing wrote on a  *)
(* new engine: at most MaxPreset cells of X, then at most MaxPreset of O,  *)
(* no pattern held yet.  The empty position is the ordinary round.         *)
(***************************************************************************)
\* the cells of a set as a list, ascending from cell c
RECURSIVE Listed(_, _)
Listed(S, c) ==
    IF c > 9 THEN << >>
    ELSE IF c \in S THEN <<c>> \o Listed(S, c + 1)
    ELSE Listed(S, c + 1)

PresetLists == {Listed(S, 0) : S \in {T \in SUBSET (0 .. 9) : Cardinality(T) <= MaxPreset}}

Preset(xs, os) ==
    set_board_for_testing(set_board_for_testing(NewEngine, xs, X), os, O)

InitPreset ==
    /\ \E xs \in PresetLists : \E os \in PresetLists :
          /\ game = Preset(xs, os)
          /\ ~check_win(game.board, X)
          /\ ~check_win(game.board, O)
    /\ op = "init"
    /\ result = None

NextPreset ==
    \/ \E p \in Positions : Quiet(player_move(game, p).game)
    \/ Quiet(computer_move(game).game)

PresetSpec == InitPreset /\ [][NextPreset]_vars

(***************************************************************************)
(* Vocabulary of the properties, stated without the engine's own helpers.  *)
(***************************************************************************)
Terminal == {PLAYER_WINS, COMPUTER_WINS, DRAW}
PlayerPhases == {PLAYER_TURN, INVISIBLE}

\* the three rows, the three columns and the two diagonals of the 3x3 grid
Lines ==
    {{3 * r, 3 * r + 1, 3 * r + 2} : r \in 0 .. 2}
        \cup {{c, c + 3, c + 6} : c \in 0 .. 2}
        \cup {{0, 4, 8}, {2, 4, 6}}

HasLine(b, mark) == \E l \in Lines : \A c \in l : b[c] = mark
NoEmpty(b) == \A c \in Cells : b[c] # EMPTY

\* the fields that outlive a round: difficulty, progression and economy
Kept(g) ==
    <<g.difficulty, g.countdown_seconds, g.current_countdown, g.win_streak,
      g.best_streak, g.loss_streak, g.games_played, g.games_won, g.tokens,
      g.total_tokens_earned, g.current_avatar, g.unlocked_avatars>>

(***************************************************************************)
(* C1. A rejected player_move(p) (phase not a player phase, p outside      *)
(* 0..8, or cell p occupied) and a rejected computer_move() (phase not     *)
(* ComputerTurn) return success = false and leave every field of the       *)
(* engine as it was, also when the rejected call is repeated.              *)
(***************************************************************************)
PlayerMoveRefused(p) ==
    \/ game.state \notin {IDLE, PLAYER_TURN, INVISIBLE}
    \/ p \notin Cells
    \/ game.board[p] # EMPTY

C1_RejectedMovesChangeNothing ==
    /\ \A p \in Positions :
          PlayerMoveRefused(p) =>
              LET r == player_move(game, p)
                  again == player_move(r.game, p)
              IN  /\ ~r.result.success /\ r.game = game
                  /\ ~again.result.success /\ again.game = game
    /\ game.state # COMPUTER_TURN =>
          LET r == computer_move(game)
              again == computer_move(r.game)
          IN  /\ ~r.result.success /\ r.game = game
              /\ ~again.result.success /\ again.game = game
    /\ \A p \in Positions :
          LET r == player_move(game, p)
          IN  ~r.result.success => r.game = game

\* a move onto an occupied cell was just refused, in a round under way
C1_Witness ==
    /\ op = "player_move"
    /\ ~result.success
    /\ result.message = "Invalid position"
    /\ game.state \in PlayerPhases
    /\ game.last_move # None

(***************************************************************************)
(* C2. winner is set, and winning_cells is non-empty, exactly when the     *)
(* phase is PlayerWins or ComputerWins; the winner is X exactly in         *)
(* PlayerWins and O exactly in ComputerWins.                               *)
(***************************************************************************)
C2_WinnerIffWinPhase ==
    /\ game.winner # None <=> game.state \in {PLAYER_WINS, COMPUTER_WINS}
    /\ game.winning_cells # << >> <=> game.state \in {PLAYER_WINS, COMPUTER_WINS}
    /\ game.winner = Some(X) <=> game.state = PLAYER_WINS
    /\ game.winner = Some(O) <=> game.state = COMPUTER_WINS

\* a round the computer won
C2_Witness ==
    /\ game.state = COMPUTER_WINS
    /\ game.winner = Some(O)
    /\ Len(game.winning_cells) = 3

(***************************************************************************)
(* C3. A terminal phase (PlayerWins, ComputerWins, Draw) and its board     *)
(* stay as they are under every call but reset: the moves are refused and  *)
(* the other calls change neither the phase nor the board.                 *)
(***************************************************************************)
C3_TerminalUntilReset ==
    [][ (game.state \in Terminal /\ op' # "reset") =>
            /\ game'.state = game.state
            /\ game'.board = game.board
            /\ op' \in {"player_move", "computer_move"} => ~result'.success
      ]_vars

\* the board was hidden after the round ended in a draw
C3_Witness ==
    /\ game.state = DRAW
    /\ op = "set_board_visible"
    /\ ~game.board_visible

(***************************************************************************)
(* C4. An accepted player_move(p) (phase PlayerTurn or Invisible, cell p   *)
(* empty) sets cell p to X and no other cell, sets last_move to p, makes   *)
(* the board visible, and sets the phase to PlayerWins if X now holds a    *)
(* whole line, else to Draw if no cell is empty, else to ComputerTurn; a   *)
(* move in a player phase onto an empty cell is accepted.                  *)
(***************************************************************************)
PhaseAfter(b, mark, won, continue) ==
    IF HasLine(b, mark) THEN won
    ELSE IF NoEmpty(b) THEN DRAW
    ELSE continue

C4_AcceptedPlayerMove ==
    \A p \in Positions :
        LET r == player_move(game, p)
        IN  /\ (game.state \in PlayerPhases /\ p \in Cells /\ game.board[p] = EMPTY)
                  => r.result.success
            /\ r.result.success =>
                  /\ game.state \in PlayerPhases
                  /\ p \in Cells
                  /\ game.board[p] = EMPTY
                  /\ r.game.board = [game.board EXCEPT ![p] = X]
                  /\ r.game.last_move = Some(p)
                  /\ r.game.board_visible
                  /\ r.game.state =
                        PhaseAfter(r.game.board, X, PLAYER_WINS, COMPUTER_TURN)
                  /\ r.game.state \notin PlayerPhases

\* the player's fifth mark filled the board without a line: a draw
C4_Witness ==
    /\ op = "player_move"
    /\ result.success
    /\ game.state = DRAW
    /\ NoEmpty(game.board)
    /\ game.board_visible

(***************************************************************************)
(* C5. An accepted computer_move() (phase ComputerTurn) changes exactly    *)
(* one cell, from Empty to O, sets last_move to that cell, leaves          *)
(* board_visible as it was, and sets the phase to ComputerWins if O now    *)
(* holds a whole line, else to Draw if no cell is empty, else to           *)
(* PlayerTurn.                                                             *)
(***************************************************************************)
C5_AcceptedComputerMove ==
    LET r == computer_move(game)
    IN  /\ game.state = COMPUTER_TURN => r.result.success
        /\ r.result.success =>
              /\ game.state = COMPUTER_TURN
              /\ \E p \in Cells :
                    /\ game.board[p] = EMPTY
                    /\ r.game.board = [game.board EXCEPT ![p] = O]
                    /\ r.game.last_move = Some(p)
              /\ r.game.board_visible = game.board_visible
              /\ r.game.state =
                    PhaseAfter(r.game.board, O, COMPUTER_WINS, PLAYER_TURN)

\* the computer answered on a board hidden during its turn: still hidden
C5_Witness ==
    /\ op = "computer_move"
    /\ result.success
    /\ game.state = PLAYER_TURN
    /\ ~game.board_visible
    /\ \E p \in Cells : game.last_move = Some(p) /\ game.board[p] = O

(***************************************************************************)
(* C6. The cell the computer takes is the one the priority list names:     *)
(* the lowest empty cell completing a line of O; else the lowest empty     *)
(* cell that would complete a line of X; else cell 4; else the first empty *)
(* cell of 0,2,6,8; else the first empty cell of 1,3,5,7.  When X          *)
(* threatens a line and O has no immediate win, the cell taken blocks.     *)
(***************************************************************************)
EmptyCells(b) == {c \in Cells : b[c] = EMPTY}
Completing(b, mark) ==
    {c \in EmptyCells(b) : HasLine([b EXCEPT ![c] = mark], mark)}
Lowest(S) == CHOOSE c \in S : \A d \in S : c <= d
FirstOf(order, S) ==
    order[CHOOSE i \in 1 .. Len(order) :
              /\ order[i] \in S
              /\ \A j \in 1 .. i - 1 : order[j] \notin S]

PriorityMove(b) ==
    IF Completing(b, O) # {} THEN Lowest(Completing(b, O))
    ELSE IF Completing(b, X) # {} THEN Lowest(Completing(b, X))
    ELSE IF 4 \in EmptyCells(b) THEN 4
    ELSE IF EmptyCells(b) \cap {0, 2, 6, 8} # {}
         THEN FirstOf(<<0, 2, 6, 8>>, EmptyCells(b))
    ELSE FirstOf(<<1, 3, 5, 7>>, EmptyCells(b))

C6_HeuristicFollowsPriorities ==
    game.state = COMPUTER_TURN =>
        LET r == computer_move(game)
        IN  /\ r.game.last_move = Some(PriorityMove(game.board))
            /\ r.result.position = PriorityMove(game.board)
            /\ (Completing(game.board, O) = {} /\ Completing(game.board, X) # {})
                  => \E c \in Completing(game.board, X) : r.game.board[c] = O

\* the computer has just blocked a line on which X holds the two other cells
C6_Witness ==
    /\ op = "computer_move"
    /\ result.success
    /\ game.state = PLAYER_TURN
    /\ \E p \in Cells :
          /\ game.last_move = Some(p)
          /\ game.board[p] = O
          /\ \E l \in Lines : p \in l /\ \A c \in l \ {p} : game.board[c] = X

(***************************************************************************)
(* C7. current_countdown stays within 1..10 whatever rounds are won, lost  *)
(* or drawn and whenever the difficulty is set: wins stop at 1 and losses  *)
(* stop at 10.                                                             *)
(***************************************************************************)
C7_CountdownInRange ==
    /\ game.current_countdown >= 1
    /\ game.current_countdown <= 10

\* a third loss in a row met the countdown at 10: it stays, the streak is kept
C7_Witness ==
    /\ game.state = COMPUTER_WINS
    /\ game.loss_streak = 3
    /\ game.current_countdown = 10

(***************************************************************************)
(* C8. tokens is never negative; unlocked_avatars has no id twice, holds   *)
(* "egg" and current_avatar, and holds only ids of the catalog.            *)
(***************************************************************************)
CatalogIds == {AVATARS[i].id : i \in 1 .. Len(AVATARS)}

C8_ShopInvariant ==
    /\ game.tokens >= 0
    /\ \A i, j \in 1 .. Len(game.unlocked_avatars) :
          game.unlocked_avatars[i] = game.unlocked_avatars[j] => i = j
    /\ \E i \in 1 .. Len(game.unlocked_avatars) :
          game.unlocked_avatars[i] = "egg"
    /\ \E i \in 1 .. Len(game.unlocked_avatars) :
          game.unlocked_avatars[i] = game.current_avatar
    /\ \A i \in 1 .. Len(game.unlocked_avatars) :
          game.unlocked_avatars[i] \in CatalogIds

\* two avatars were bought, spending every token, and another one selected
C8_Witness ==
    /\ Len(game.unlocked_avatars) = 3
    /\ game.tokens = 0
    /\ game.current_avatar # game.unlocked_avatars[3]

(***************************************************************************)
(* C9. reset(), in a round under way or over, leaves difficulty, the       *)
(* countdown, the streaks, the game counters, the tokens and the avatars   *)
(* as they were, and sets the board to nine Empty cells, the phase to      *)
(* PlayerTurn, board_visible to true, winner to none, winning_cells to     *)
(* empty and last_move to none.                                            *)
(***************************************************************************)
C9_ResetKeepsProgress ==
    [][ op' = "reset" =>
            /\ Kept(game') = Kept(game)
            /\ game'.board = [c \in Cells |-> EMPTY]
            /\ game'.state = PLAYER_TURN
            /\ game'.board_visible
            /\ game'.winner = None
            /\ game'.winning_cells = << >>
            /\ game'.last_move = None
            /\ DOMAIN game' = DOMAIN game
      ]_vars

\* a new round was started after a round the player won
C9_Witness ==
    /\ op = "reset"
    /\ game.state = PLAYER_TURN
    /\ game.win_streak = 1
    /\ game.games_played = 1
    /\ game.tokens > 0

(***************************************************************************)
(* C10. games_played grows by exactly 1 on every step from a phase that is *)
(* not terminal to PlayerWins, ComputerWins or Draw, and on no other step; *)
(* games_won, win_streak, best_streak and loss_streak change on no other   *)
(* step either.                                                            *)
(***************************************************************************)
RoundEnds == game.state \notin Terminal /\ game'.state \in Terminal

C10_RecordedOncePerRound ==
    [][ /\ RoundEnds => game'.games_played = game.games_played + 1
        /\ ~RoundEnds =>
              /\ game'.games_played = game.games_played
              /\ game'.games_won = game.games_won
              /\ game'.win_streak = game.win_streak
              /\ game'.best_streak = game.best_streak
              /\ game'.loss_streak = game.loss_streak
      ]_vars

\* the difficulty was set after a won round: the counters still show the win
C10_Witness ==
    /\ op = "set_difficulty"
    /\ game.state = PLAYER_WINS
    /\ game.games_played = 1
    /\ game.win_streak = 1
    /\ game.best_streak = 1

(***************************************************************************)
(* C11. When a round ends in PlayerWins: games_won and win_streak grow by  *)
(* 1, best_streak becomes the larger of itself and the new win_streak,     *)
(* loss_streak becomes 0, current_countdown drops by 1 unless it is 1, and *)
(* tokens and total_tokens_earned both grow by base + 5 * (new win_streak  *)
(* - 1), base being 5, 10 or 20 for Easy, Medium or Hard at that moment.   *)
(***************************************************************************)
BaseReward(d) == IF d = EASY THEN 5 ELSE IF d = MEDIUM THEN 10 ELSE 20
Larger(a, b) == IF a > b THEN a ELSE b

RoundLost == RoundEnds /\ game'.state = COMPUTER_WINS

LossEffect(raise) ==
    /\ game'.win_streak = 0
    /\ game'.tokens = game.tokens
    /\ game'.total_tokens_earned = game.total_tokens_earned
    /\ game'.games_won = game.games_won
    /\ game'.best_streak = game.best_streak
    /\ IF raise
       THEN /\ game'.current_countdown = game.current_countdown + 1
            /\ game'.loss_streak = 0
       ELSE /\ game'.current_countdown = game.current_countdown
            /\ game'.loss_streak = game.loss_streak + 1

C12_AsStated ==
    [][ RoundLost =>
            LossEffect(game.loss_streak + 1 = 3 /\ game.current_countdown < 10)
      ]_vars

C12_LossAdjustsCountdown ==
    [][ RoundLost =>
            LossEffect(game.loss_streak + 1 >= 3 /\ game.current_countdown < 10)
      ]_vars

\* four losses and nothing else; the fourth, at a streak of 4, raised the
\* countdown and cleared the streak (the third met the countdown at 10)
C12_Witness ==
    /\ game.state = COMPUTER_WINS
    /\ game.games_played = 4
    /\ game.games_won = 0
    /\ game.total_tokens_earned = 0
    /\ game.loss_streak = 0

(***************************************************************************)
(* C13. When a round ends in Draw: games_played increases by 1, tokens and *)
(* total_tokens_earned each increase by exactly 2, and win_streak,         *)
(* best_streak, loss_streak, games_won and current_countdown are unchanged *)
(* (a draw neither extends nor breaks a streak).                           *)
(***************************************************************************)
RoundDrawn == RoundEnds /\ game'.state = DRAW

C13_DrawIsNeutral ==
    [][ RoundDrawn =>
            /\ game'.games_played = game.games_played + 1
            /\ game'.tokens = game.tokens + 2
            /\ game'.total_tokens_earned = game.total_tokens_earned + 2
            /\ game'.win_streak = game.win_streak
            /\ game'.best_streak = game.best_streak
            /\ game'.loss_streak = game.loss_streak
            /\ game'.games_won = game.games_won
            /\ game'.current_countdown = game.current_countdown
      ]_vars

\* a win, then a draw: the streak of 1 is still there
C13_Witness ==
    /\ game.state = DRAW
    /\ game.games_played = 2
    /\ game.games_won = 1
    /\ game.win_streak = 1

(***************************************************************************)
(* C14. After N consecutive rounds won by the player from a fresh engine,  *)
(* win_streak = N and best_streak >= N; a loss after that sets win_streak  *)
(* to 0 and leaves best_streak unchanged.  In general best_streak never    *)
(* decreases and is changed by nothing but a round ending in a win (not by *)
(* a loss, a draw or a reset).                                             *)
(***************************************************************************)
RoundWon == RoundEnds /\ game'.state = PLAYER_WINS

C14_StreakMonotonicity ==
    [][ /\ (game'.games_won = game'.games_played =>
                /\ game'.win_streak = game'.games_played
                /\ game'.best_streak >= game'.games_played)
        /\ game'.best_streak >= game.best_streak
        /\ (game'.best_streak # game.best_streak => RoundWon)
        /\ (RoundLost => /\ game'.win_streak = 0
                         /\ game'.best_streak = game.best_streak)
      ]_vars

\* two wins in a row, then a loss
C14_Witness ==
    /\ game.state = COMPUTER_WINS
    /\ game.games_played = 3
    /\ game.games_won = 2
    /\ game.win_streak = 0
    /\ game.best_streak = 2
    /\ game.loss_streak = 1

(***************************************************************************)
(* C15. purchase_avatar(id) fails with, in this precedence, "not found"    *)
(* if id is not in the catalog, "already unlocked" if id is unlocked, "not *)
(* enough tokens" (naming the cost) if tokens < cost; every failure of     *)
(* purchase_avatar or of set_avatar (id not unlocked) leaves the engine as *)
(* it was.  On success purchase_avatar takes exactly the cost from tokens, *)
(* adds id at the end of unlocked_avatars, selects it and leaves every     *)
(* other field, total_tokens_earned included, unchanged.                   *)
(***************************************************************************)
Unlocked(g) == {g.unlocked_avatars[i] : i \in 1 .. Len(g.unlocked_avatars)}
Price(a) == (CHOOSE i \in 1 .. Len(AVATARS) : AVATARS[i].id = a)

PurchaseOutcome(a) ==
    IF a \notin CatalogIds THEN "Avatar not found"
    ELSE IF a \in Unlocked(game) THEN "Avatar already unlocked"
    ELSE IF game.tokens < AVATARS[Price(a)].cost THEN "Not enough tokens!"
    ELSE "Unlocked"

C15_ShopCalls ==
    \A a \in ShopIds :
        LET r == purchase_avatar(game, a)
            s == set_avatar(game, a)
        IN  /\ r.result.message = PurchaseOutcome(a)
            /\ r.result.success <=> PurchaseOutcome(a) = "Unlocked"
            /\ ~r.result.success => r.game = game
            /\ PurchaseOutcome(a) = "Not enough tokens!" =>
                   /\ r.result.need = AVATARS[Price(a)].cost
                   /\ r.result.have = game.tokens
            /\ r.result.success =>
                   /\ r.game.tokens = game.tokens - AVATARS[Price(a)].cost
                   /\ r.game.unlocked_avatars = game.unlocked_avatars \o <<a>>
                   /\ r.game.current_avatar = a
                   /\ r.result.avatar.id = a
                   /\ [r.game EXCEPT !.tokens = game.tokens,
                                     !.unlocked_avatars = game.unlocked_avatars,
                                     !.current_avatar = game.current_avatar] = game
            /\ s.result.success <=> a \in Unlocked(game)
            /\ ~s.result.success => s.game = game

\* "chick" was bought for 25 after a round was lost: it is unlocked and another
\* one cannot be afforded
C15_Witness ==
    /\ game.unlocked_avatars = <<"egg", "chick">>
    /\ game.current_avatar = "chick"
    /\ game.tokens = game.total_tokens_earned - 25
    /\ game.tokens < 25
    /\ game.state = COMPUTER_WINS

(***************************************************************************)
(* C16. set_board_visible(false) changes the phase only when the phase is  *)
(* PlayerTurn, which becomes Invisible; set_board_visible(true) sets the   *)
(* flag and never changes the phase (an Invisible phase stays Invisible    *)
(* until a move or a reset); in both cases the board, winner, last move    *)
(* and all progression and economy fields are unchanged.                   *)
(***************************************************************************)
C16_VisibilityCall ==
    [][ /\ op' = "set_board_visible" =>
               /\ (game'.state # game.state =>
                       /\ ~game'.board_visible
                       /\ game.state = PLAYER_TURN
                       /\ game'.state = INVISIBLE)
               /\ (~game'.board_visible /\ game.state = PLAYER_TURN =>
                       game'.state = INVISIBLE)
               /\ [game' EXCEPT !.board_visible = game.board_visible,
                                !.state = game.state] = game
        /\ (game.state = INVISIBLE /\ game'.state # INVISIBLE) =>
               op' \in {"player_move", "reset"}
      ]_vars

\* the board was shown again in the Invisible phase: the phase is still Invisible
C16_Witness ==
    /\ op = "set_board_visible"
    /\ game.state = INVISIBLE
    /\ game.board_visible

(***************************************************************************)
(* C17. Whenever the phase is ComputerTurn the board is visible, because   *)
(* the player move that led to ComputerTurn revealed it; the board is      *)
(* hidden only while the player is to move (C17_AsStated).  The engine     *)
(* guarantees less: the accepted player move reveals the board, so the     *)
(* board is visible when ComputerTurn is entered; computer_move leaves the *)
(* flag alone; and the board goes from visible to hidden by nothing but    *)
(* set_board_visible(false), which the engine carries out in every phase   *)
(* (C17_HiddenOnlyByCaller).                                               *)
(***************************************************************************)
C17_AsStated ==
    /\ game.state = COMPUTER_TURN => game.board_visible
    /\ ~game.board_visible => game.state \in PlayerPhases

C17_HiddenOnlyByCaller ==
    [][ /\ (game.state # COMPUTER_TURN /\ game'.state = COMPUTER_TURN) =>
               game'.board_visible
        /\ (op' = "player_move" /\ result'.success) => game'.board_visible
        /\ op' = "computer_move" => game'.board_visible = game.board_visible
        /\ (game.board_visible /\ ~game'.board_visible) =>
               op' = "set_board_visible"
      ]_vars

\* the board was hidden while the computer was to move
C17_Witness ==
    /\ op = "set_board_visible"
    /\ game.state = COMPUTER_TURN
    /\ ~game.board_visible

(***************************************************************************)
(* C18. set_difficulty(d), called in any reachable state including         *)
(* mid-round, sets difficulty to d and current_countdown to the base of d  *)
(* (Easy 10, Medium 5, Hard 1), discarding any adaptive adjustment, and    *)
(* leaves the board, phase, visibility, winner, last move, streaks, game   *)
(* counters, tokens and avatars unchanged.                                 *)
(***************************************************************************)
BaseCountdown(d) == IF d = EASY THEN 10 ELSE IF d = MEDIUM THEN 5 ELSE 1

C18_SetDifficulty ==
    \A d \in Difficulty :
        LET g2 == set_difficulty(game, d)
        IN  /\ g2.difficulty = d
            /\ g2.current_countdown = BaseCountdown(d)
            /\ get_countdown_seconds(g2) = BaseCountdown(d)
            /\ [g2 EXCEPT !.difficulty = game.difficulty,
                          !.current_countdown = game.current_countdown,
                          !.countdown_seconds = game.countdown_seconds] = game

\* the round was won, which shortened the countdown; then Easy was chosen
C18_Witness ==
    /\ op = "set_difficulty"
    /\ game.state = PLAYER_WINS
    /\ game.games_won = 1
    /\ game.difficulty = EASY
    /\ game.current_countdown = 10

(***************************************************************************)
(* C19. In every reachable state the marks alternate starting with the     *)
(* player: the number of X cells minus the number of O cells is 0 when the *)
(* phase is PlayerTurn or Invisible, 1 when it is ComputerTurn, 0 in       *)
(* ComputerWins, 1 in PlayerWins and Draw; last_move is none exactly when  *)
(* the board is empty.                                                     *)
(***************************************************************************)
Count(b, mark) == Cardinality({c \in Cells : b[c] = mark})

C19_MarksAlternate ==
    /\ Count(game.board, X) - Count(game.board, O) =
           IF game.state \in {COMPUTER_TURN, PLAYER_WINS, DRAW} THEN 1 ELSE 0
    /\ game.last_move = None <=> \A c \in Cells : game.board[c] = EMPTY

\* a full board: five X and four O
C19_Witness ==
    /\ game.state = DRAW
    /\ Count(game.board, X) = 5
    /\ Count(game.board, O) = 4
    /\ game.last_move # None

(***************************************************************************)
(* C20. In every reachable state the phase agrees with the board: in       *)
(* PlayerTurn, Invisible and ComputerTurn neither mark occupies a whole    *)
(* winning triple and at least one cell is empty (so the heuristic never   *)
(* scans an empty list); in Draw the board is full and neither mark has a  *)
(* winning triple; X and O never both have one; PlayerWins holds only if X *)
(* has one and ComputerWins only if O has one.                             *)
(***************************************************************************)
C20_PhaseAgreesWithBoard ==
    /\ game.state \in {PLAYER_TURN, INVISIBLE, COMPUTER_TURN} =>
           /\ ~HasLine(game.board, X)
           /\ ~HasLine(game.board, O)
           /\ ~NoEmpty(game.board)
    /\ game.state = COMPUTER_TURN => Len(get_empty_positions(game.board)) > 0
    /\ game.state = DRAW =>
           /\ NoEmpty(game.board)
           /\ ~HasLine(game.board, X)
           /\ ~HasLine(game.board, O)
    /\ ~(HasLine(game.board, X) /\ HasLine(game.board, O))
    /\ game.state = PLAYER_WINS => HasLine(game.board, X)
    /\ game.state = COMPUTER_WINS => HasLine(game.board, O)

\* the computer completed the diagonal 2, 4, 6
C20_Witness ==
    /\ game.state = COMPUTER_WINS
    /\ \A c \in {2, 4, 6} : game.board[c] = O
    /\ ~NoEmpty(game.board)

(***************************************************************************)
(* C21. Every round terminates: each accepted move reduces the number of   *)
(* empty cells by exactly 1, so from reset a terminal phase is reached     *)
(* after at most 9 accepted moves (at most 5 by the player and 4 by the    *)
(* computer), and if valid moves keep being made the round eventually      *)
(* ends; a Draw is only ever entered by a player move, never by a computer *)
(* move.  Termination is stated by its measure: the number of empty cells  *)
(* is at most 9, every accepted move takes exactly 1 from it, at 0 the     *)
(* round is over, and while the round is not over an accepted move exists. *)
(***************************************************************************)
C21_RoundTerminates ==
    LET c == computer_move(game)
    IN  /\ Count(game.board, X) <= 5
        /\ Count(game.board, O) <= 4
        /\ Count(game.board, EMPTY) = 0 => game.state \in Terminal
        /\ \A p \in Positions :
               LET r == player_move(game, p)
               IN  r.result.success =>
                       Count(r.game.board, EMPTY) = Count(game.board, EMPTY) - 1
        /\ c.result.success =>
               /\ Count(c.game.board, EMPTY) = Count(game.board, EMPTY) - 1
               /\ c.game.state # DRAW
        /\ game.state \in PlayerPhases =>
               \E p \in Positions : player_move(game, p).result.success
        /\ game.state = COMPUTER_TURN => c.result.success

\* the ninth accepted move, the player's fifth, ended the round in a draw
C21_Witness ==
    /\ op = "player_move"
    /\ result.success
    /\ game.state = DRAW
    /\ Count(game.board, EMPTY) = 0

(***************************************************************************)
(* C22. Whenever the phase is PlayerWins or ComputerWins, winning_cells is *)
(* one of the 8 fixed winning triples, all three of its cells hold the     *)
(* winner's mark, it contains last_move, and it is the first triple in the *)
(* fixed order [0,1,2],[3,4,5],[6,7,8],[0,3,6],[1,4,7],[2,5,8],[0,4,8],    *)
(* [2,4,6] that the winner fully occupies (also when the winning move      *)
(* completes two triples at once).                                         *)
(***************************************************************************)
Triples ==
    << <<0, 1, 2>>, <<3, 4, 5>>, <<6, 7, 8>>, <<0, 3, 6>>,
       <<1, 4, 7>>, <<2, 5, 8>>, <<0, 4, 8>>, <<2, 4, 6>> >>

Occupies(b, mark, t) == \A j \in 1 .. 3 : b[t[j]] = mark
WinnerMark == IF game.state = PLAYER_WINS THEN X ELSE O

C22_WinningCells ==
    game.state \in {PLAYER_WINS, COMPUTER_WINS} =>
        \E k \in 1 .. 8 :
            /\ game.winning_cells = Triples[k]
            /\ Occupies(game.board, WinnerMark, Triples[k])
            /\ \A j \in 1 .. k - 1 : ~Occupies(game.board, WinnerMark, Triples[j])
            /\ \E j \in 1 .. 3 : game.last_move = Some(Triples[k][j])

\* the winning move completed two triples at once
C22_Witness ==
    /\ game.state \in {PLAYER_WINS, COMPUTER_WINS}
    /\ \E j, k \in 1 .. 8 :
          /\ j < k
          /\ Occupies(game.board, WinnerMark, Triples[j])
          /\ Occupies(game.board, WinnerMark, Triples[k])

(***************************************************************************)
(* C23. Token conservation: in every reachable state tokens equals         *)
(* total_tokens_earned minus the sum of the catalog costs of the avatars   *)
(* in unlocked_avatars; total_tokens_earned never decreases; and tokens    *)
(* decreases only on a successful purchase_avatar (the step that adds an   *)
(* avatar to unlocked_avatars), by that avatar's cost.                     *)
(***************************************************************************)
RECURSIVE CostFrom(_, _)
CostFrom(ids, i) ==
    IF i > Len(ids) THEN 0
    ELSE AVATARS[Price(ids[i])].cost + CostFrom(ids, i + 1)

Conserved(g) == g.tokens = g.total_tokens_earned - CostFrom(g.unlocked_avatars, 1)

C23_TokenConservation ==
    [][ /\ Conserved(game)
        /\ Conserved(game')
        /\ game'.total_tokens_earned >= game.total_tokens_earned
        /\ game'.tokens < game.tokens =>
               /\ Len(game'.unlocked_avatars) = Len(game.unlocked_avatars) + 1
               /\ game'.current_avatar \notin Unlocked(game)
               /\ game'.unlocked_avatars = game.unlocked_avatars \o <<game'.current_avatar>>
               /\ game'.total_tokens_earned = game.total_tokens_earned
      ]_vars

\* 25 of the tokens earned in three rounds went into "chick", some are left
C23_Witness ==
    /\ game.unlocked_avatars = <<"egg", "chick">>
    /\ game.games_played = 3
    /\ game.tokens > 0
    /\ game.total_tokens_earned = game.tokens + 25

(***************************************************************************)
(* C24. In every reachable state the progression counters are consistent:  *)
(* 0 <= win_streak <= best_streak <= games_won <= games_played,            *)
(* loss_streak >= 0, win_streak and loss_streak are never both positive,   *)
(* and games_played and games_won never decrease.                          *)
(***************************************************************************)
Consistent(g) ==
    /\ 0 <= g.win_streak
    /\ g.win_streak <= g.best_streak
    /\ g.best_streak <= g.games_won
    /\ g.games_won <= g.games_played
    /\ g.loss_streak >= 0
    /\ ~(g.win_streak > 0 /\ g.loss_streak > 0)

C24_CountersConsistent ==
    [][ /\ Consistent(game)
        /\ Consistent(game')
        /\ game'.games_played >= game.games_played
        /\ game'.games_won >= game.games_won
      ]_vars

\* won, lost, won, drawn: the best streak stays below the rounds won
C24_Witness ==
    /\ game.state = DRAW
    /\ game.games_played = 4
    /\ game.games_won = 2
    /\ game.win_streak = 1
    /\ game.best_streak = 1
    /\ game.loss_streak = 0

====
